---- MODULE Spec2Model ----
(***************************************************************************)
(* A model of pyhelp: the batch runner and the report parsers of           *)
(* pyhelp/processing.py, and the CWEEDS join, the HELP input writer and    *)
(* the monthly normals of pyhelp/weather_reader.py.                        *)
(*                                                                         *)
(* Each function is a small state machine over its own variables; the      *)
(* specifications SpecRead, SpecBatch, SpecJoin, SpecSave and SpecNormals  *)
(* run one of them each, and Spec runs any of them.                        *)
(***************************************************************************)
EXTENDS Integers, Sequences, FiniteSets, TLC

VARIABLES
    mfile,       \* read_monthly_help_output: csvread, the rows of the report
    mst,         \* read_monthly_help_output: its locals and its position
    dfile,       \* read_daily_help_output: csvread
    dst,         \* read_daily_help_output: its locals and its position
    cellparams,  \* run_help_allcells: cell id -> outparam[5], the output path
    ncore,       \* run_help_allcells: the size of the pool
    fs,          \* the output files on disk: path -> rows, or NoFile
    pool,        \* the Pool: its task queue, its workers, its result queue
    run,         \* run_help_allcells: its locals and its position
    hist,        \* the disk as the call began, and what each cell underwent
    jin,         \* join_daily_cweeds_wy2_and_wy3: wy2_df and wy3_df
    jst,         \* join_daily_cweeds_wy2_and_wy3: its locals and its position
    sin,         \* save_data_to_HELP_format: its arguments
    sst,         \* save_data_to_HELP_format: its locals and its position
    sfs,         \* save_data_to_HELP_format: the target file on disk
    nin,         \* calcul_monthly_normals: its arguments
    nst          \* calcul_monthly_normals: its locals and its position

readVars == <<mfile, mst, dfile, dst>>
batchVars == <<cellparams, ncore, fs, pool, run, hist>>
joinVars == <<jin, jst>>
saveVars == <<sin, sst, sfs>>
normVars == <<nin, nst>>
vars == <<readVars, batchVars, joinVars, saveVars, normVars>>

\* ------------------------------------------------------------------ bounds

\* Most year blocks of a structured monthly report.
MaxBlocks == 2
\* Most rows of a free-form monthly report.
MaxLines == 3

\* ----------------------------------------------------------------- helpers

Max(a, b) == IF a >= b THEN a ELSE b

RECURSIVE Concat(_)
Concat(ss) == IF ss = <<>> THEN <<>> ELSE Head(ss) \o Concat(Tail(ss))

SetMin(S) == CHOOSE x \in S : \A y \in S : x <= y
SetMax(S) == CHOOSE x \in S : \A y \in S : x >= y

\* All sequences over S of length at most n.
SeqsUpTo(S, n) == UNION {[1..k -> S] : k \in 0..n}

\* calendar.isleap
IsLeap(y) == (y % 4 = 0) /\ ((y % 100 # 0) \/ (y % 400 = 0))

\* ===================================================== monthly report rows
\* A row of csv.reader's output: n is len(csvread[i]) (0 for a blank line);
\* of its first cell, kw is the set of markers and labels the text holds,
\* vals stands for line.split()[-6:] (0: tokens that are no numbers, else
\* an identifier of the six numbers) and year for int(line.split()[-1])
\* (0: the last token is no integer).

MRow(kw, vals, year) == [n |-> 1, kw |-> kw, vals |-> vals, year |-> year]

MBlank == [n |-> 0, kw |-> {}, vals |-> 0, year |-> 0]
MSep == MRow({"**********"}, 0, 0)
MFinal == MRow({"FINAL WATER STORAGE"}, 0, 0)
MMarker(y) == MRow({"MONTHLY TOTALS"}, 0, y)
MLabel(k) == MRow({k}, 1, 0)
MCont == MRow({}, 1, 0)

\* The entries a structured block is made of: a label line and its
\* continuation line (with a blank line between the two for "p"), a blank
\* line, the separator.
MEntry(e) ==
    CASE e = "P" -> <<MLabel("PRECIPITATION"), MCont>>
      [] e = "p" -> <<MLabel("PRECIPITATION"), MBlank, MCont>>
      [] e = "R" -> <<MLabel("RUNOFF"), MCont>>
      [] e = "E" -> <<MLabel("EVAPOTRANSPIRATION"), MCont>>
      [] e = "L" -> <<MLabel("LATERAL DRAINAGE"), MCont>>
      [] e = "K" -> <<MLabel("PERCOLATION"), MCont>>
      [] e = "b" -> <<MBlank>>
      [] e = "s" -> <<MSep>>

\* The block shapes the reports are drawn from.
MShapes ==
    { <<"P", "R", "E", "L", "K", "s">>,
      <<"P", "R", "E", "L", "K", "L", "K", "s">>,
      <<"P", "R", "E", "K", "s">>,
      <<"R", "E", "L", "K", "s">>,
      <<"P", "R", "E", "L", "s">>,
      <<"P", "R", "E", "L", "K">>,
      <<"b", "P", "R", "b", "E", "K", "K", "b", "s">>,
      <<"p", "R", "E", "L", "K", "s">>,
      <<"P", "R", "E", "L", "K", "s", "b">> }

MTails == { <<>>, <<MFinal, MCont>>, <<MCont, MBlank>> }

\* The k-th block of a structured report is the block of year 2000 + k.
MBlock(shape, k) ==
    <<MMarker(2000 + k)>> \o Concat([j \in DOMAIN shape |-> MEntry(shape[j])])

\* Every row that holds numbers gets its own identifier: its line number.
Renumber(f) ==
    [j \in DOMAIN f |-> IF f[j].vals > 0 THEN [f[j] EXCEPT !.vals = j] ELSE f[j]]

StructuredReports ==
    { Renumber(Concat([k \in DOMAIN ss |-> MBlock(ss[k], k)]) \o t) :
        ss \in SeqsUpTo(MShapes, MaxBlocks), t \in MTails }

MAlphabet ==
    { MBlank, MMarker(2000), MSep, MFinal, MLabel("PERCOLATION"), MCont }

FreeReports == { Renumber(f) : f \in SeqsUpTo(MAlphabet, MaxLines) }

MonthlyReports == StructuredReports \cup FreeReports

\* ============================================== read_monthly_help_output
\* The value of a local that holds a list of tokens: not yet assigned, None,
\* or line.split()[-6:] + nline.split()[-6:].
Unbound == [tag |-> "unbound", a |-> 0, b |-> 0]
NoneV == [tag |-> "none", a |-> 0, b |-> 0]
TokList(a, b) == [tag |-> "list", a |-> a, b |-> b]

\* A row of a result table: w is its width.
Row12(a, b) == [w |-> 12, a |-> a, b |-> b]
ZeroRow == [w |-> 12, a |-> 0, b |-> 0]
NanRow == [w |-> 1, a |-> 0, b |-> 0]

MStart ==
    [pc |-> "outer", i |-> 0, year |-> 0, err |-> "",
     arr_years |-> <<>>,
     precip |-> Unbound, runoff |-> Unbound, evapo |-> Unbound,
     subrunoff |-> Unbound, percol |-> Unbound, rechg |-> Unbound,
     vstack_precip |-> <<>>, vstack_runoff |-> <<>>, vstack_evapo |-> <<>>,
     vstack_subrunoff |-> <<>>, vstack_percol |-> <<>>, vstack_rechg |-> <<>>,
     start |-> 0, spans |-> <<>>, data |-> <<>>]

MIdle == [MStart EXCEPT !.pc = "idle"]

MRaise(st, e) == [st EXCEPT !.pc = "raised", !.err = e]

\* The pass of the outer loop on a row that holds the 'MONTHLY TOTALS' marker.
MOuterMarker(st, row) ==
    IF row.year = 0
    THEN MRaise(st, "ValueError")
    ELSE [st EXCEPT !.year = row.year,
                    !.arr_years = Append(@, row.year),
                    !.subrunoff = NoneV,
                    !.percol = NoneV,
                    !.start = st.i,
                    !.pc = "inner"]

\* One pass of the outer while loop.
MOuterStep(st, f) ==
    IF st.i + 1 >= Len(f)
    THEN [st EXCEPT !.pc = "build"]
    ELSE LET row == f[st.i + 1] IN
         IF row.n = 0
         THEN [st EXCEPT !.i = st.i + 1]
         ELSE IF "MONTHLY TOTALS" \in row.kw
         THEN MOuterMarker(st, row)
         ELSE IF "FINAL WATER STORAGE" \in row.kw
         THEN [st EXCEPT !.pc = "build"]
         ELSE [st EXCEPT !.i = st.i + 1]

\* A chain in which every 'PERCOLATION' pair overwrites percol.
MAssignLastWins(st, row, nrow) ==
    LET pair == TokList(row.vals, nrow.vals) IN
    IF "PRECIPITATION" \in row.kw
    THEN [st EXCEPT !.precip = pair]
    ELSE IF "RUNOFF" \in row.kw
    THEN [st EXCEPT !.runoff = pair]
    ELSE IF "EVAPOTRANSPIRATION" \in row.kw
    THEN [st EXCEPT !.evapo = pair]
    ELSE IF "LATERAL DRAINAGE" \in row.kw /\ st.subrunoff = NoneV
    THEN [st EXCEPT !.subrunoff = pair]
    ELSE IF "PERCOLATION" \in row.kw
    THEN [st EXCEPT !.percol = pair, !.rechg = pair]
    ELSE st

\* The if/elif chain of the inner loop on a label line and the line after it.
MAssign(st, row, nrow) ==
    LET pair == TokList(row.vals, nrow.vals) IN
    IF "PRECIPITATION" \in row.kw
    THEN [st EXCEPT !.precip = pair]
    ELSE IF "RUNOFF" \in row.kw
    THEN [st EXCEPT !.runoff = pair]
    ELSE IF "EVAPOTRANSPIRATION" \in row.kw
    THEN [st EXCEPT !.evapo = pair]
    ELSE IF "LATERAL DRAINAGE" \in row.kw /\ st.subrunoff = NoneV
    THEN [st EXCEPT !.subrunoff = pair]
    ELSE IF "PERCOLATION" \in row.kw
    THEN [st EXCEPT !.percol = IF st.percol = NoneV THEN pair ELSE @,
                    !.rechg = pair]
    ELSE st

\* One pass of the inner while loop.
MInnerStep(st, f) ==
    LET i == st.i + 1
        s1 == [st EXCEPT !.i = i]
    IN  IF i >= Len(f)
        THEN MRaise(s1, "IndexError")
        ELSE LET row == f[i + 1] IN
             IF row.n = 0
             THEN s1
             ELSE IF "**********" \in row.kw
             THEN [s1 EXCEPT !.pc = "append"]
             ELSE IF i + 1 >= Len(f)
             THEN MRaise(s1, "IndexError")
             ELSE LET nrow == f[i + 2] IN
                  IF nrow.n = 0 THEN s1 ELSE MAssign(s1, row, nrow)

\* np.array(v).astype('float32') of a local: the row, or the error raised.
AsFloat32(v) ==
    IF v.tag = "unbound" THEN [err |-> "UnboundLocalError", row |-> NanRow]
    ELSE IF v.tag = "none" THEN [err |-> "", row |-> NanRow]
    ELSE IF v.a = 0 \/ v.b = 0 THEN [err |-> "ValueError", row |-> NanRow]
    ELSE [err |-> "", row |-> Row12(v.a, v.b)]

\* The appends that close a block, in the order of the code; the first one
\* that raises ends the call.
RECURSIVE MAppendAll(_, _)
MAppendAll(st, todo) ==
    IF todo = <<>>
    THEN st
    ELSE LET stack == Head(todo)[1]
             c == AsFloat32(Head(todo)[2])
         IN  IF c.err # ""
             THEN MRaise(st, c.err)
             ELSE MAppendAll([st EXCEPT ![stack] = Append(@, c.row)], Tail(todo))

\* An end of block that appends no row of zeros for a year without
\* 'LATERAL DRAINAGE'.
MAppendSubrunoffSkips(st) ==
    IF st.pc = "raised" \/ st.subrunoff = NoneV
    THEN st
    ELSE MAppendAll(st, << <<"vstack_subrunoff", st.subrunoff>> >>)

\* The sub-runoff row of the block: zeros when the block has no
\* 'LATERAL DRAINAGE' pair.
MAppendSubrunoff(st) ==
    IF st.pc = "raised"
    THEN st
    ELSE IF st.subrunoff = NoneV
    THEN [st EXCEPT !.vstack_subrunoff = Append(@, ZeroRow)]
    ELSE MAppendAll(st, << <<"vstack_subrunoff", st.subrunoff>> >>)

\* The end of a block, and the i += 1 that ends the pass of the outer loop.
MAppendStep(st) ==
    LET s1 == MAppendAll(st, << <<"vstack_precip", st.precip>>,
                               <<"vstack_runoff", st.runoff>>,
                               <<"vstack_evapo", st.evapo>>,
                               <<"vstack_rechg", st.rechg>>,
                               <<"vstack_percol", st.percol>> >>)
        s2 == MAppendSubrunoff(s1)
    IN  IF s2.pc = "raised"
        THEN s2
        ELSE [s2 EXCEPT !.spans = Append(@, <<st.start, st.i>>),
                        !.i = st.i + 1,
                        !.pc = "outer"]

\* np.vstack raises on an empty list and on rows of different widths.
VStackOk(rows) == rows # <<>> /\ \A j \in DOMAIN rows : rows[j].w = rows[1].w

MTable(st) ==
    ("years" :> [j \in DOMAIN st.arr_years |-> st.arr_years[j] % 65536])
    @@ ("rain" :> st.vstack_precip)
    @@ ("runoff" :> st.vstack_runoff)
    @@ ("evapo" :> st.vstack_evapo)
    @@ ("sub-runoff" :> st.vstack_subrunoff)
    @@ ("percolation" :> st.vstack_percol)
    @@ ("recharge" :> st.vstack_rechg)

\* The construction of the result table.
MBuildStep(st) ==
    IF /\ VStackOk(st.vstack_precip) /\ VStackOk(st.vstack_runoff)
       /\ VStackOk(st.vstack_evapo) /\ VStackOk(st.vstack_subrunoff)
       /\ VStackOk(st.vstack_percol) /\ VStackOk(st.vstack_rechg)
    THEN [st EXCEPT !.pc = "done", !.data = MTable(st)]
    ELSE MRaise(st, "ValueError")

MonthlyStep(st, f) ==
    CASE st.pc = "outer" -> MOuterStep(st, f)
      [] st.pc = "inner" -> MInnerStep(st, f)
      [] st.pc = "append" -> MAppendStep(st)
      [] st.pc = "build" -> MBuildStep(st)
      [] OTHER -> st

\* read_monthly_help_output as a function of the rows: the final state.
RECURSIVE MRun(_, _)
MRun(st, f) ==
    IF st.pc \in {"done", "raised", "idle"} THEN st ELSE MRun(MonthlyStep(st, f), f)

ReadMonthly(f) == MRun(MStart, f)

\* ------------------------------------------------------- actions (monthly)

MOuter ==
    /\ mst.pc = "outer"
    /\ mst' = MOuterStep(mst, mfile)
    /\ UNCHANGED <<mfile, dfile, dst, batchVars, joinVars, saveVars, normVars>>

MInner ==
    /\ mst.pc = "inner"
    /\ mst' = MInnerStep(mst, mfile)
    /\ UNCHANGED <<mfile, dfile, dst, batchVars, joinVars, saveVars, normVars>>

MAppend ==
    /\ mst.pc = "append"
    /\ mst' = MAppendStep(mst)
    /\ UNCHANGED <<mfile, dfile, dst, batchVars, joinVars, saveVars, normVars>>

MBuild ==
    /\ mst.pc = "build"
    /\ mst' = MBuildStep(mst)
    /\ UNCHANGED <<mfile, dfile, dst, batchVars, joinVars, saveVars, normVars>>

\* ================================================ read_daily_help_output
\* A row of a daily report: n is len(csvread[i]); of its first cell, kw is
\* the set of markers the text holds, last is int(line.split()[-1]) (0: the
\* last token is no integer), day is int(line[2:5]) when every fixed-width
\* field of the line converts (0: one of them raises ValueError) and vals
\* stands for the eight float fields.

DRowOf(kw, last, day) == [n |-> 1, kw |-> kw, last |-> last, day |-> day, vals |-> day]

DBlank == [n |-> 0, kw |-> {}, last |-> 0, day |-> 0, vals |-> 0]
DMarker(y) == DRowOf({"DAILY OUTPUT FOR YEAR"}, y, 0)
DLayers == DRowOf({"TOTAL NUMBER OF LAYERS"}, 4, 0)
DSubs == DRowOf({"TOTAL NUMBER OF SUBPROFILES"}, 0, 0)
DData(d) == DRowOf({}, 0, d)
DJunk == DRowOf({}, 0, 0)

\* Most rows of a free-form daily report.
MaxDLines == 3
\* Most rows after the 365 rows of a year in a daily report.
MaxTrail == 1

DAlphabet ==
    { DBlank, DMarker(2001), DMarker(2004), DLayers, DSubs,
      DData(1), DData(365), DData(366), DJunk }

DTrailAlphabet == { DData(1), DData(365), DData(366), DJunk }

\* A marker, the rows of days 1..365 and some rows after them, no marker
\* among them.
YearReports ==
    { <<DMarker(y)>> \o [d \in 1..365 |-> DData(d)] \o t :
        y \in {2001, 2004}, t \in SeqsUpTo(DTrailAlphabet, MaxTrail) }

DailyReports == SeqsUpTo(DAlphabet, MaxDLines) \cup YearReports

\* year = None
NoYear == -1

DStart ==
    [pc |-> "loop", i |-> 0, year |-> NoYear, days_in_year |-> 0,
     nlay |-> 0, nsub |-> 0, err |-> "",
     arr_years |-> <<>>, arr_days |-> <<>>, arr_rain |-> <<>>, arr_ru |-> <<>>,
     arr_et |-> <<>>, arr_ezone |-> <<>>, arr_headfirst |-> <<>>,
     arr_drainfirst |-> <<>>, arr_leakfirst |-> <<>>, arr_leaklast |-> <<>>,
     data |-> <<>>]

DIdle == [DStart EXCEPT !.pc = "idle"]

DRaise(st, e) == [st EXCEPT !.pc = "raised", !.err = e]

\* The header facts: the layer and subprofile counts.
DHeader(st, row) ==
    IF "TOTAL NUMBER OF LAYERS" \in row.kw
    THEN IF row.last = 0 THEN DRaise(st, "ValueError") ELSE [st EXCEPT !.nlay = row.last]
    ELSE IF "TOTAL NUMBER OF SUBPROFILES" \in row.kw
    THEN IF row.last = 0 THEN DRaise(st, "ValueError") ELSE [st EXCEPT !.nsub = row.last]
    ELSE st

\* A record that never clears the year context.
DRecordKeepsYear(st, row) ==
    [st EXCEPT !.arr_years = Append(@, st.year),
               !.arr_days = Append(@, row.day),
               !.arr_rain = Append(@, row.vals),
               !.arr_ru = Append(@, row.vals),
               !.arr_et = Append(@, row.vals),
               !.arr_ezone = Append(@, row.vals),
               !.arr_headfirst = Append(@, row.vals),
               !.arr_drainfirst = Append(@, row.vals),
               !.arr_leakfirst = Append(@, row.vals),
               !.arr_leaklast = Append(@, row.vals)]

\* The else branch of the try: a data row is recorded.
DRecord(st, row) ==
    [st EXCEPT !.arr_years = Append(@, st.year),
               !.arr_days = Append(@, row.day),
               !.arr_rain = Append(@, row.vals),
               !.arr_ru = Append(@, row.vals),
               !.arr_et = Append(@, row.vals),
               !.arr_ezone = Append(@, row.vals),
               !.arr_headfirst = Append(@, row.vals),
               !.arr_drainfirst = Append(@, row.vals),
               !.arr_leakfirst = Append(@, row.vals),
               !.arr_leaklast = Append(@, row.vals),
               !.year = IF row.day = st.days_in_year THEN NoYear ELSE @]

\* The marker branch and the data-row branch.
DLine(st, row) ==
    IF st.pc = "raised"
    THEN st
    ELSE IF "DAILY OUTPUT FOR YEAR" \in row.kw
    THEN IF row.last = 0
         THEN DRaise(st, "ValueError")
         ELSE [st EXCEPT !.year = row.last,
                         !.days_in_year = IF IsLeap(row.last) THEN 366 ELSE 365]
    ELSE IF st.year # NoYear
    THEN IF row.day = 0 THEN st ELSE DRecord(st, row)
    ELSE st

DTable(st) ==
    ("years" :> [j \in DOMAIN st.arr_years |-> st.arr_years[j] % 65536])
    @@ ("days" :> [j \in DOMAIN st.arr_days |-> st.arr_days[j] % 65536])
    @@ ("rain" :> st.arr_rain)
    @@ ("runoff" :> st.arr_ru)
    @@ ("et" :> st.arr_et)
    @@ ("ezone" :> st.arr_ezone)
    @@ ("head first" :> st.arr_headfirst)
    @@ ("drain first" :> st.arr_drainfirst)
    @@ ("leak first" :> st.arr_leakfirst)
    @@ ("leak last" :> st.arr_leaklast)

\* One pass of the for loop; past the last row, the table is built.
DailyStep(st, f) ==
    IF st.i >= Len(f)
    THEN [st EXCEPT !.pc = "done", !.data = DTable(st)]
    ELSE LET row == f[st.i + 1]
             s1 == IF row.n = 0 THEN st ELSE DLine(DHeader(st, row), row)
         IN  IF s1.pc = "raised" THEN s1 ELSE [s1 EXCEPT !.i = st.i + 1]

\* -------------------------------------------------------- actions (daily)

DLoop ==
    /\ dst.pc = "loop"
    /\ dst.i < Len(dfile)
    /\ dst' = DailyStep(dst, dfile)
    /\ UNCHANGED <<mfile, mst, dfile, batchVars, joinVars, saveVars, normVars>>

DReturn ==
    /\ dst.pc = "loop"
    /\ dst.i >= Len(dfile)
    /\ dst' = DailyStep(dst, dfile)
    /\ UNCHANGED <<mfile, mst, dfile, batchVars, joinVars, saveVars, normVars>>

\* ==================================================== run_help_allcells
\* Most cells of cellparams.
MaxCells == 2
\* Most workers of the pool.
MaxCore == 2

\* A file on disk.
NoFile == [exists |-> FALSE, rows |-> <<>>]
File(rows) == [exists |-> TRUE, rows |-> rows]

\* The report the simulator writes for cell c, and the report a run before
\* this one left at path p: one closed block each, of a year of their own.
SimReport(c) == Renumber(MBlock(<<"P", "R", "E", "L", "K", "s">>, c))
PrevReport(p) == Renumber(MBlock(<<"P", "R", "E", "K", "L", "K", "s">>, 10 + p))

\* The cell sets: cells 1..n, each with its output path. Paths are named
\* in the order the cells first use them.
CellParams ==
    UNION { { f \in [1..n -> 1..MaxCells] :
                \A c \in 1..n : f[c] = 1 \/ \E b \in 1..(c - 1) : f[b] >= f[c] - 1 } :
            n \in 0..MaxCells }

Paths == 1..MaxCells

\* ncore = max(mp.cpu_count() if ncore is None else ncore, 1); arg is the
\* argument (-1: None) and cpu is mp.cpu_count().
NCore(arg, cpu) == Max(IF arg = -1 THEN cpu ELSE arg, 1)

Cells == DOMAIN cellparams
Active == { c \in Cells : pool.job[c].pc \in {"check", "sim", "read", "remove"} }
Logged(c, op) == [hist EXCEPT !.log[c] = Append(@, <<op, cellparams[c]>>)]
Job(c) == pool.job[c]
Finish(c, ok, results) ==
    [pool EXCEPT !.job[c].pc = IF ok THEN "done" ELSE "failed",
                 !.outq = Append(@, [cell |-> c, ok |-> ok, results |-> results])]

\* A worker of the pool takes the next item of cellparams.items().
WTake(c) ==
    /\ Job(c).pc = "queued"
    /\ \A b \in Cells : b < c => Job(b).pc # "queued"
    /\ Cardinality(Active) < ncore
    /\ pool' = [pool EXCEPT !.job[c].pc = "check"]
    /\ UNCHANGED <<cellparams, ncore, fs, run, hist>>

\* A worker that runs the simulator whether or not the output file exists.
WCheckAlwaysSim(c) ==
    /\ Job(c).pc = "check"
    /\ pool' = [pool EXCEPT !.job[c].pc = "sim"]
    /\ hist' = [hist EXCEPT !.log[c] =
                    Append(@, <<IF fs[cellparams[c]].exists THEN "found" ELSE "absent",
                                cellparams[c]>>)]
    /\ UNCHANGED <<cellparams, ncore, fs, run>>

\* if not osp.exists(outparam[5])
WCheck(c) ==
    /\ Job(c).pc = "check"
    /\ pool' = [pool EXCEPT !.job[c].pc =
                    IF fs[cellparams[c]].exists THEN "read" ELSE "sim"]
    /\ hist' = [hist EXCEPT !.log[c] =
                    Append(@, <<IF fs[cellparams[c]].exists THEN "found" ELSE "absent",
                                cellparams[c]>>)]
    /\ UNCHANGED <<cellparams, ncore, fs, run>>

\* HELP3O.run_simulation(*outparam): the simulator writes the output file.
WSim(c) ==
    /\ Job(c).pc = "sim"
    /\ fs' = [fs EXCEPT ![cellparams[c]] = File(SimReport(c))]
    /\ pool' = [pool EXCEPT !.job[c].pc = "read"]
    /\ hist' = [Logged(c, "sim") EXCEPT !.nsim[c] = @ + 1]
    /\ UNCHANGED <<cellparams, ncore, run>>

\* results = read_monthly_help_output(outparam[5]); open() raises when the
\* file is not there, and an exception ends the task.
WRead(c) ==
    /\ Job(c).pc = "read"
    /\ LET f == fs[cellparams[c]]
           r == ReadMonthly(f.rows)
       IN  IF f.exists /\ r.pc = "done"
           THEN pool' = [pool EXCEPT !.job[c].pc = "remove", !.job[c].results = r.data]
           ELSE pool' = Finish(c, FALSE, <<>>)
    /\ hist' = Logged(c, "parse")
    /\ UNCHANGED <<cellparams, ncore, fs, run>>

\* A worker that returns its results and leaves the output file on disk.
WRemoveKeepsFile(c) ==
    /\ Job(c).pc = "remove"
    /\ fs' = fs
    /\ pool' = Finish(c, TRUE, Job(c).results)
    /\ hist' = Logged(c, "remove")
    /\ UNCHANGED <<cellparams, ncore, run>>

\* os.remove(outparam[5]) and return (cellname, results); os.remove raises
\* when the file is not there.
WRemove(c) ==
    /\ Job(c).pc = "remove"
    /\ IF fs[cellparams[c]].exists
       THEN /\ fs' = [fs EXCEPT ![cellparams[c]] = NoFile]
            /\ pool' = Finish(c, TRUE, Job(c).results)
       ELSE /\ fs' = fs
            /\ pool' = Finish(c, FALSE, <<>>)
    /\ hist' = Logged(c, "remove")
    /\ UNCHANGED <<cellparams, ncore, run>>

\* A loop that takes the results to come in the order of submission.
MainCollectInOrder ==
    /\ run.pc = "loop"
    /\ pool.outq # <<>>
    /\ LET cell == Head(pool.outq) IN
       IF cell.ok
       THEN run' = [run EXCEPT !.output = ((run.calcul_progress + 1) :> cell.results) @@ @,
                               !.calcul_progress = @ + 1]
       ELSE run' = [run EXCEPT !.pc = "raised"]
    /\ pool' = [pool EXCEPT !.outq = Tail(@)]
    /\ hist' = [hist EXCEPT !.order = Append(@, Head(pool.outq).cell)]
    /\ UNCHANGED <<cellparams, ncore, fs>>

\* One pass of the for loop over pool.imap_unordered: the next result in
\* completion order; a task that raised raises here.
MainCollect ==
    /\ run.pc = "loop"
    /\ pool.outq # <<>>
    /\ LET cell == Head(pool.outq) IN
       IF cell.ok
       THEN run' = [run EXCEPT !.output = (cell.cell :> cell.results) @@ @,
                               !.calcul_progress = @ + 1]
       ELSE run' = [run EXCEPT !.pc = "raised"]
    /\ pool' = [pool EXCEPT !.outq = Tail(@)]
    /\ hist' = [hist EXCEPT !.order = Append(@, Head(pool.outq).cell)]
    /\ UNCHANGED <<cellparams, ncore, fs>>

\* The iterator is exhausted after N results: return output.
MainReturn ==
    /\ run.pc = "loop"
    /\ run.calcul_progress = run.N
    /\ run' = [run EXCEPT !.pc = "returned"]
    /\ UNCHANGED <<cellparams, ncore, fs, pool, hist>>

InitBatchVars ==
    /\ cellparams \in CellParams
    /\ ncore \in { NCore(arg, cpu) : arg \in -1..MaxCore, cpu \in 1..MaxCore }
    /\ \E pre \in SUBSET { cellparams[c] : c \in DOMAIN cellparams } :
          fs = [p \in Paths |-> IF p \in pre THEN File(PrevReport(p)) ELSE NoFile]
    /\ pool = [job |-> [c \in DOMAIN cellparams |->
                           [pc |-> "queued", results |-> <<>>]],
               outq |-> <<>>]
    /\ run = [pc |-> "loop", output |-> <<>>, calcul_progress |-> 0,
              N |-> Cardinality(DOMAIN cellparams)]
    /\ hist = [fs0 |-> fs,
               nsim |-> [c \in DOMAIN cellparams |-> 0],
               log |-> [c \in DOMAIN cellparams |-> <<>>],
               order |-> <<>>]

NextBatch ==
    \/ \E c \in Cells : WTake(c) /\ UNCHANGED <<readVars, joinVars, saveVars, normVars>>
    \/ \E c \in Cells : WCheck(c) /\ UNCHANGED <<readVars, joinVars, saveVars, normVars>>
    \/ \E c \in Cells : WSim(c) /\ UNCHANGED <<readVars, joinVars, saveVars, normVars>>
    \/ \E c \in Cells : WRead(c) /\ UNCHANGED <<readVars, joinVars, saveVars, normVars>>
    \/ \E c \in Cells : WRemove(c) /\ UNCHANGED <<readVars, joinVars, saveVars, normVars>>
    \/ MainCollect /\ UNCHANGED <<readVars, joinVars, saveVars, normVars>>
    \/ MainReturn /\ UNCHANGED <<readVars, joinVars, saveVars, normVars>>

\* ======================================== join_daily_cweeds_wy2_and_wy3
\* Most rows of a dataset.
MaxRows == 2
\* The time coordinates are 1..MaxTime.
MaxTime == 3

JKeys == {"Years", "Months", "Days", "Hours", "Irradiance"}

\* A dataset of read_cweeds_file: the calendar fields of a row follow from
\* its time coordinate; every row has an irradiance of its own (base + j).
Dataset(fmt, tfmt, times, base) ==
    [fmt |-> fmt, tfmt |-> tfmt, Time |-> times,
     cols |-> [key \in JKeys |->
                 [j \in DOMAIN times |->
                     CASE key = "Years" -> 2000 + (times[j] \div 2)
                       [] key = "Months" -> 1 + (times[j] % 2)
                       [] key = "Days" -> times[j]
                       [] key = "Hours" -> 0
                       [] key = "Irradiance" -> base + j]]]

\* The format tags of the two arguments: accepted ones and refused ones.
JFormats ==
    { <<"WY2", "daily", "WY3", "daily">>, <<"WY2", "hourly", "WY3", "hourly">>,
      <<"WY3", "daily", "WY3", "daily">>, <<"WY2", "daily", "WY2", "daily">>,
      <<"WY2", "daily", "WY3", "hourly">> }

JInputs ==
    { [wy2 |-> Dataset(t[1], t[2], a, 20), wy3 |-> Dataset(t[3], t[4], b, 30)] :
        t \in JFormats,
        a \in SeqsUpTo(1..MaxTime, MaxRows), b \in SeqsUpTo(1..MaxTime, MaxRows) }

\* np.sort(np.unique(x)): the values of x in increasing order.
RECURSIVE SortedSeq(_)
SortedSeq(S) ==
    IF S = {} THEN <<>> ELSE <<SetMin(S)>> \o SortedSeq(S \ {SetMin(S)})

Values(x) == { x[j] : j \in DOMAIN x }

\* np.digitize(x, bins) with right=False: bins[i-1] <= x < bins[i].
DigitizeLeft(x, bins) == Cardinality({ j \in DOMAIN bins : bins[j] <= x })

\* np.digitize(x, bins, right=True) for increasing bins: the index i with
\* bins[i-1] < x <= bins[i], counted from 0.
Digitize(x, bins) == Cardinality({ j \in DOMAIN bins : bins[j] < x })

\* np.empty: an array of n values that are not initialized.
Garbage == -1
Empty(n) == [j \in 1..n |-> Garbage]

\* arr[indexes] = vals: the assignments in the order of the indexes (the
\* indexes count from 0); ok is FALSE when an index is out of bounds.
RECURSIVE Scatter(_, _, _)
Scatter(arr, indexes, vals) ==
    IF indexes = <<>>
    THEN [ok |-> TRUE, arr |-> arr]
    ELSE IF Head(indexes) >= Len(arr)
    THEN [ok |-> FALSE, arr |-> arr]
    ELSE Scatter([arr EXCEPT ![Head(indexes) + 1] = Head(vals)],
                 Tail(indexes), Tail(vals))

JStart == [pc |-> "assert", err |-> "", time_wy23 |-> <<>>, wy23_df |-> <<>>]

\* The three asserts.
JAssertStep(st, in) ==
    IF in.wy2.fmt = "WY2" /\ in.wy3.fmt = "WY3" /\ in.wy2.tfmt = in.wy3.tfmt
    THEN [st EXCEPT !.pc = "axis"]
    ELSE [st EXCEPT !.pc = "raised", !.err = "AssertionError"]

\* The merged time axis and the allocation of the merged arrays.
JAxisStep(st, in) ==
    LET t == SortedSeq(Values(in.wy2.Time) \cup Values(in.wy3.Time)) IN
    [st EXCEPT !.pc = "wy2",
               !.time_wy23 = t,
               !.wy23_df = [fmt |-> "WY2+WY3", tfmt |-> in.wy3.tfmt, Time |-> t,
                            cols |-> [key \in JKeys |-> Empty(Len(t))]]]

\* One pass of the loop over the datasets.
JScatterStep(st, dataset, next) ==
    LET indexes == [j \in DOMAIN dataset.Time |-> Digitize(dataset.Time[j], st.time_wy23)]
        res == [key \in JKeys |-> Scatter(st.wy23_df.cols[key], indexes, dataset.cols[key])]
    IN  IF \A key \in JKeys : res[key].ok
        THEN [st EXCEPT !.pc = next,
                        !.wy23_df.cols = [key \in JKeys |-> res[key].arr]]
        ELSE [st EXCEPT !.pc = "raised", !.err = "IndexError"]

JAssert ==
    /\ jst.pc = "assert"
    /\ jst' = JAssertStep(jst, jin)
    /\ UNCHANGED <<jin, readVars, batchVars, saveVars, normVars>>

JAxis ==
    /\ jst.pc = "axis"
    /\ jst' = JAxisStep(jst, jin)
    /\ UNCHANGED <<jin, readVars, batchVars, saveVars, normVars>>

JScatterWy2 ==
    /\ jst.pc = "wy2"
    /\ jst' = JScatterStep(jst, jin.wy2, "wy3")
    /\ UNCHANGED <<jin, readVars, batchVars, saveVars, normVars>>

JScatterWy3 ==
    /\ jst.pc = "wy3"
    /\ jst' = JScatterStep(jst, jin.wy3, "done")
    /\ UNCHANGED <<jin, readVars, batchVars, saveVars, normVars>>

NextJoin == JAssert \/ JAxis \/ JScatterWy2 \/ JScatterWy3

\* ============================================= save_data_to_HELP_format
\* lat = None
NoLat == -999

\* The years of the `years` array; the array is held as the number of its
\* entries per year.
SYears == {1900, 2001, 2004}
SCounts == {0, 364, 365, 366}

SInputs ==
    [ext : {"D4", "D7", "D13", "OUT"}, lat : {NoLat, 45},
     count : [SYears -> SCounts],
     fs0 : {NoFile, File(<<[kind |-> "old", year |-> 0, k |-> 0]>>)}]

\* np.unique(years)
SUnique(in) == SortedSeq({ y \in SYears : in.count[y] > 0 })

SStart == [pc |-> "ext", err |-> "", fcontent |-> <<>>, todo |-> <<>>]

\* The choice of the formats by the extension of the file name.
SExtStep(st, in) ==
    IF in.ext \in {"D4", "D7"}
    THEN [st EXCEPT !.pc = "header"]
    ELSE IF in.ext = "D13"
    THEN IF in.lat = NoLat
         THEN [st EXCEPT !.pc = "raised", !.err = "ValueError"]
         ELSE [st EXCEPT !.pc = "header"]
    ELSE [st EXCEPT !.pc = "raised", !.err = "ValueError"]

\* The four lines of the header.
SHeaderLines(in) ==
    << [kind |-> "itype", year |-> 0, k |-> 3],
       [kind |-> "iunits", year |-> 0, k |-> 2],
       [kind |-> "city", year |-> 0, k |-> 40],
       IF in.ext = "D13"
       THEN [kind |-> "lat", year |-> 0, k |-> in.lat]
       ELSE [kind |-> "empty", year |-> 0, k |-> 0] >>

SHeaderStep(st, in) ==
    [st EXCEPT !.pc = "data", !.fcontent = SHeaderLines(in), !.todo = SUnique(in)]

\* One pass of the loop over np.unique(years): the assert, and the 37 lines
\* of 10 values of the year.
SYearStep(st, in) ==
    LET year == Head(st.todo)
        days_in_year == IF IsLeap(year) THEN 366 ELSE 365
    IN  IF in.count[year] # days_in_year
        THEN [st EXCEPT !.pc = "raised", !.err = "AssertionError"]
        ELSE [st EXCEPT !.todo = Tail(@),
                        !.fcontent = @ \o [k \in 1..37 |->
                                              [kind |-> "data", year |-> year, k |-> k]]]

SExt ==
    /\ sst.pc = "ext"
    /\ sst' = SExtStep(sst, sin)
    /\ UNCHANGED <<sin, sfs, readVars, batchVars, joinVars, normVars>>

\* A writer that opens the target file as soon as it has the header.
SHeaderOpensFile ==
    /\ sst.pc = "header"
    /\ sst' = SHeaderStep(sst, sin)
    /\ sfs' = File(<<>>)
    /\ UNCHANGED <<sin, readVars, batchVars, joinVars, normVars>>

SHeader ==
    /\ sst.pc = "header"
    /\ sst' = SHeaderStep(sst, sin)
    /\ UNCHANGED <<sin, sfs, readVars, batchVars, joinVars, normVars>>

SYear ==
    /\ sst.pc = "data"
    /\ sst.todo # <<>>
    /\ sst' = SYearStep(sst, sin)
    /\ UNCHANGED <<sin, sfs, readVars, batchVars, joinVars, normVars>>

\* save_content_to_csv: open(fname, 'w') creates or truncates the file.
SOpen ==
    /\ sst.pc = "data"
    /\ sst.todo = <<>>
    /\ sst' = [sst EXCEPT !.pc = "write"]
    /\ sfs' = File(<<>>)
    /\ UNCHANGED <<sin, readVars, batchVars, joinVars, normVars>>

\* save_content_to_csv: writer.writerows(fcontent), and the file is closed.
SWrite ==
    /\ sst.pc = "write"
    /\ sst' = [sst EXCEPT !.pc = "done"]
    /\ sfs' = File(sst.fcontent)
    /\ UNCHANGED <<sin, readVars, batchVars, joinVars, normVars>>

NextSave == SExt \/ SHeader \/ SYear \/ SOpen \/ SWrite

\* =============================================== calcul_monthly_normals
\* Most entries of the years, months and x_mly arrays.
MaxLen == 2

\* yearmin = None
NoYearMin == -1

\* x_mly holds numbers; a negative entry stands for nan.
IsNan(v) == v < 0

NInputs ==
    [years : SeqsUpTo({2000, 2001}, MaxLen),
     months : SeqsUpTo({1, 13}, MaxLen),
     x_mly : SeqsUpTo({5, -1}, MaxLen),
     yearmin : {NoYearMin, 2001}]

NStart == [pc |-> "lengths", err |-> "", x_mly |-> <<>>, x_norm |-> <<>>]

NRaise(st, e) == [st EXCEPT !.pc = "raised", !.err = e]

\* if len(years) != len(months) != len(x_mly): raise ValueError
NLengthsStep(st, in) ==
    IF Len(in.years) # Len(in.months) /\ Len(in.months) # Len(in.x_mly)
    THEN NRaise(st, "ValueError")
    ELSE [st EXCEPT !.pc = "months"]

\* The range of the months; np.min of an empty array raises ValueError.
NMonthsStep(st, in) ==
    IF in.months = <<>>
    THEN NRaise(st, "ValueError")
    ELSE IF SetMin(Values(in.months)) < 1 \/ SetMax(Values(in.months)) > 12
    THEN NRaise(st, "ValueError")
    ELSE [st EXCEPT !.pc = "mask"]

\* x_mly[years < yearmin] = np.nan on a copy of x_mly: a boolean index of
\* another length than the array raises IndexError.
NMaskStep(st, in) ==
    IF in.yearmin = NoYearMin
    THEN [st EXCEPT !.pc = "normals", !.x_mly = in.x_mly]
    ELSE IF Len(in.years) # Len(in.x_mly)
    THEN NRaise(st, "IndexError")
    ELSE [st EXCEPT !.pc = "normals",
                    !.x_mly = [j \in DOMAIN in.x_mly |->
                                 IF in.years[j] < in.yearmin THEN -1 ELSE in.x_mly[j]]]

\* The element j of an array broadcast to n elements.
Broadcast(arr, j) == IF Len(arr) = 1 THEN arr[1] ELSE arr[j]

\* np.where((months == mm) & (~np.isnan(x_mly)))[0], counted from 1: the
\* two arrays are broadcast to a common length (an array of one element
\* takes the length of the other one).
NIndx(months, x, mm) ==
    { j \in 1..(IF Len(months) = 1 THEN Len(x) ELSE Len(months)) :
        Broadcast(months, j) = mm /\ ~IsNan(Broadcast(x, j)) }

RECURSIVE SumOver(_, _)
SumOver(x, S) ==
    IF S = {} THEN 0 ELSE x[SetMin(S)] + SumOver(x, S \ {SetMin(S)})

\* The loop over the twelve months: a normal is held as the sum and the
\* number of the values it is the mean of (no value: nan).
NNormalsStep(st, in) ==
    LET x == st.x_mly
        m == in.months
    IN  IF Len(m) # Len(x) /\ Len(m) # 1 /\ Len(x) # 1
        THEN NRaise(st, "ValueError")
        ELSE IF \E mm \in 1..12 : \E j \in NIndx(m, x, mm) : j > Len(x)
        THEN NRaise(st, "IndexError")
        ELSE [st EXCEPT !.pc = "done",
                        !.x_norm = [mm \in 1..12 |->
                                      <<SumOver(x, NIndx(m, x, mm)),
                                        Cardinality(NIndx(m, x, mm))>>]]

NLengths ==
    /\ nst.pc = "lengths"
    /\ nst' = NLengthsStep(nst, nin)
    /\ UNCHANGED <<nin, readVars, batchVars, joinVars, saveVars>>

NMonths ==
    /\ nst.pc = "months"
    /\ nst' = NMonthsStep(nst, nin)
    /\ UNCHANGED <<nin, readVars, batchVars, joinVars, saveVars>>

NMask ==
    /\ nst.pc = "mask"
    /\ nst' = NMaskStep(nst, nin)
    /\ UNCHANGED <<nin, readVars, batchVars, joinVars, saveVars>>

NNormals ==
    /\ nst.pc = "normals"
    /\ nst' = NNormalsStep(nst, nin)
    /\ UNCHANGED <<nin, readVars, batchVars, joinVars, saveVars>>

NextNormals == NLengths \/ NMonths \/ NMask \/ NNormals

\* ------------------------------------------------------------- SpecRead

ReadIdle == mfile = <<>> /\ mst = MIdle /\ dfile = <<>> /\ dst = DIdle
BatchIdle ==
    /\ cellparams = <<>> /\ ncore = 0 /\ fs = <<>>
    /\ pool = [job |-> <<>>, outq |-> <<>>]
    /\ run = [pc |-> "idle", output |-> <<>>, calcul_progress |-> 0, N |-> 0]
    /\ hist = [fs0 |-> <<>>, nsim |-> <<>>, log |-> <<>>, order |-> <<>>]
JoinIdle == jin = <<>> /\ jst = [JStart EXCEPT !.pc = "idle"]
SaveIdle == sin = <<>> /\ sst = [SStart EXCEPT !.pc = "idle"] /\ sfs = NoFile
NormIdle == nin = <<>> /\ nst = [NStart EXCEPT !.pc = "idle"]

InitMonthly ==
    /\ mfile \in MonthlyReports
    /\ mst = MStart
    /\ dfile = <<>>
    /\ dst = DIdle

InitDaily ==
    /\ dfile \in DailyReports
    /\ dst = DStart
    /\ mfile = <<>>
    /\ mst = MIdle

InitRead ==
    /\ InitMonthly \/ InitDaily
    /\ BatchIdle /\ JoinIdle /\ SaveIdle /\ NormIdle

NextRead == MOuter \/ MInner \/ MAppend \/ MBuild \/ DLoop \/ DReturn

SpecRead == InitRead /\ [][NextRead]_vars

InitBatch ==
    /\ InitBatchVars
    /\ ReadIdle /\ JoinIdle /\ SaveIdle /\ NormIdle

SpecBatch == InitBatch /\ [][NextBatch]_vars

InitJoin ==
    /\ jin \in JInputs
    /\ jst = JStart
    /\ ReadIdle /\ BatchIdle /\ SaveIdle /\ NormIdle

SpecJoin == InitJoin /\ [][NextJoin]_vars

InitSave ==
    /\ sin \in SInputs
    /\ sst = SStart
    /\ sfs = sin.fs0
    /\ ReadIdle /\ BatchIdle /\ JoinIdle /\ NormIdle

SpecSave == InitSave /\ [][NextSave]_vars

InitNormals ==
    /\ nin \in NInputs
    /\ nst = NStart
    /\ ReadIdle /\ BatchIdle /\ JoinIdle /\ SaveIdle

SpecNormals == InitNormals /\ [][NextNormals]_vars

\* Any of the functions runs.
Init == InitRead \/ InitBatch \/ InitJoin \/ InitSave \/ InitNormals
Next == NextRead \/ NextBatch \/ NextJoin \/ NextSave \/ NextNormals
Spec == Init /\ [][Next]_vars

\* ------------------------------------------------------------- claims (read)

\* The row the code reads at index j (the code counts rows from 0).
MAt(j) == mfile[j + 1]
DAt(j) == dfile[j + 1]

\* The 'PERCOLATION' pairs of the block whose marker is row s and whose
\* separator is row e: a label line followed by a line that is not blank.
PercAt(s, e) ==
    { j \in (s + 1)..(e - 1) :
        MAt(j).n > 0 /\ MAt(j).kw = {"PERCOLATION"} /\ MAt(j + 1).n > 0 }

PairRow(j) == Row12(MAt(j).vals, MAt(j + 1).vals)

\* C4: for every year block with one or more 'PERCOLATION' pairs before its
\* separator, the block's percolation row is built from the first pair of
\* the block and its recharge row from the last one, and the returned table
\* holds these rows.
C4_FirstLastPercolation ==
    /\ \A k \in DOMAIN mst.spans :
          LET P == PercAt(mst.spans[k][1], mst.spans[k][2]) IN
          P # {} =>
            /\ mst.vstack_percol[k] = PairRow(SetMin(P))
            /\ mst.vstack_rechg[k] = PairRow(SetMax(P))
    /\ mst.pc = "done" =>
          /\ mst.data["percolation"] = mst.vstack_percol
          /\ mst.data["recharge"] = mst.vstack_rechg

\* A returned table with a block of two 'PERCOLATION' pairs, whose
\* percolation and recharge rows differ.
C4_Witness ==
    /\ mst.pc = "done"
    /\ \E k \in DOMAIN mst.spans :
          /\ Cardinality(PercAt(mst.spans[k][1], mst.spans[k][2])) = 2
          /\ mst.data["percolation"][k] # mst.data["recharge"][k]

MonthlyKeys == {"rain", "runoff", "evapo", "sub-runoff", "percolation", "recharge"}
DailyKeys ==
    {"days", "rain", "runoff", "et", "ezone", "head first", "drain first",
     "leak first", "leak last"}

\* Row j of a daily report is a 'DAILY OUTPUT FOR YEAR' marker.
DIsMarker(j) == DAt(j).n > 0 /\ "DAILY OUTPUT FOR YEAR" \in DAt(j).kw
\* Row j of a daily report is a data row (its first token is a day number).
DIsData(j) == DAt(j).n > 0 /\ ~DIsMarker(j) /\ DAt(j).day # 0

\* Row j is read under a year context: a marker precedes it, and no data row
\* between the last such marker and row j is the last day of the marker's
\* year.
DUnderYear(j) ==
    LET ms == {m \in 0..(j - 1) : DIsMarker(m)} IN
    /\ ms # {}
    /\ LET m == SetMax(ms)
           diy == IF IsLeap(DAt(m).last) THEN 366 ELSE 365
       IN  \A k \in (m + 1)..(j - 1) : ~(DIsData(k) /\ DAt(k).day = diy)

\* The number of data rows of the daily report that are read under a year
\* context.
DAccepted ==
    Cardinality({j \in 0..(Len(dfile) - 1) : DIsData(j) /\ DUnderYear(j)})

\* C7: in a returned table every named array has the leading dimension of
\* 'years': one row per parsed 'MONTHLY TOTALS' marker in the monthly table,
\* one entry per accepted data row in the daily table.
C7_SameLeadingDimension ==
    /\ mst.pc = "done" =>
          /\ Len(mst.data["years"]) = Len(mst.arr_years)
          /\ \A key \in MonthlyKeys : Len(mst.data[key]) = Len(mst.data["years"])
    /\ dst.pc = "done" =>
          /\ Len(dst.data["years"]) = DAccepted
          /\ \A key \in DailyKeys : Len(dst.data[key]) = Len(dst.data["years"])

\* A returned monthly table of two years, one of them without a
\* 'LATERAL DRAINAGE' pair (its sub-runoff row is the row of zeros).
C7_Witness ==
    /\ mst.pc = "done"
    /\ Len(mst.data["years"]) = 2
    /\ \E k \in 1..2 : mst.data["sub-runoff"][k] = ZeroRow

\* C9: the scan of read_monthly_help_output stops at a
\* 'FINAL WATER STORAGE' marker or at the end of the file and never reads a
\* row past the end of the file (csvread[i] with i >= len(csvread) raises
\* IndexError).
C9_ScanStaysInFile == mst.err # "IndexError"

\* The row the daily loop is about to read.
DCur == DAt(dst.i)
DRecorded == Len(dst'.arr_days) > Len(dst.arr_days)
DaysIn(y) == IF IsLeap(y) THEN 366 ELSE 365

\* A daily report of YearReports for a year that is not a leap year.
IsCommonYearReport ==
    /\ dfile \in YearReports
    /\ ~IsLeap(dfile[1].last)

\* C3: a row is recorded only while a year context is set; the context is
\* set by a 'DAILY OUTPUT FOR YEAR' marker only, and it is cleared by the
\* recorded row whose day is the number of days of the year. So a marker for
\* a common year, the rows of days 1..365 and rows without a marker after
\* them give exactly 365 entries, all of that year.
C3_YearContext ==
    /\ [][DRecorded => dst.year # NoYear]_vars
    /\ [][(dst.year = NoYear /\ dst'.year # NoYear) =>
             "DAILY OUTPUT FOR YEAR" \in DCur.kw]_vars
    /\ [][(DRecorded /\ DCur.day = DaysIn(dst.year)) => dst'.year = NoYear]_vars
    /\ [](dst.pc = "done" /\ IsCommonYearReport =>
             /\ Len(dst.data["years"]) = 365
             /\ Len(dst.data["days"]) = 365
             /\ \A j \in 1..365 :
                   /\ dst.data["years"][j] = dfile[1].last
                   /\ dst.data["days"][j] = j)

\* The parse of such a report, with a data row after day 365, has returned.
C3_Witness ==
    /\ dst.pc = "done"
    /\ IsCommonYearReport
    /\ Len(dfile) > 366
    /\ dfile[367].day # 0
    /\ Len(dst.data["days"]) = 365

\* ------------------------------------------------------------ claims (batch)

IsPrefix(a, b) == Len(a) <= Len(b) /\ \A j \in DOMAIN a : a[j] = b[j]

\* What cell c underwent so far, without the paths.
Ops(c) == [j \in DOMAIN hist.log[c] |-> hist.log[c][j][1]]

DistinctPaths == \A a, b \in Cells : a # b => cellparams[a] # cellparams[b]
AllPreexist == \A c \in Cells : hist.fs0[cellparams[c]].exists
NoSimulation == \A c \in Cells : hist.nsim[c] = 0

\* The simulator runs for a cell at most once, and only after the worker
\* found the output file of the cell absent.
SimOnlyIfAbsent ==
    \A c \in Cells :
      /\ hist.nsim[c] <= 1
      /\ \A j \in DOMAIN hist.log[c] :
            Ops(c)[j] = "sim" => j > 1 /\ Ops(c)[j - 1] = "absent"

\* A result waits for the loop, or the loop has them all, or a worker is at
\* work, or a worker can take a cell.
CanGoOn ==
    \/ pool.outq # <<>>
    \/ run.calcul_progress = run.N
    \/ Active # {}
    \/ \E c \in Cells : Job(c).pc = "queued" /\ Cardinality(Active) < ncore

\* The call did not raise, ran no simulation, can go on until it returns,
\* and returns a result for every cell.
ResumesAll ==
    /\ NoSimulation
    /\ run.pc # "raised"
    /\ run.pc = "loop" => CanGoOn
    /\ run.pc = "returned" => DOMAIN run.output = Cells

\* C1 as stated: the simulator runs for a cell only if the output file of
\* the cell is absent when the cell is processed, and at most once per cell;
\* when the output files of all cells exist before the call, the call
\* returns a result for every cell and the simulator never runs.
C1_AsStated == SimOnlyIfAbsent /\ (AllPreexist => ResumesAll)

\* C1 as amended: the same, the second part for cells whose output paths
\* are pairwise distinct.
C1_SkipsExisting == SimOnlyIfAbsent /\ (AllPreexist /\ DistinctPaths => ResumesAll)

\* A call over two or more cells with distinct paths, all files there
\* before the call, two or more workers, has returned.
C1_Witness ==
    /\ run.pc = "returned"
    /\ run.N >= 2
    /\ ncore >= 2
    /\ AllPreexist /\ DistinctPaths
    /\ NoSimulation
    /\ DOMAIN run.output = Cells

\* C2: a cell undergoes (simulate if the output file is absent), parse,
\* delete, in this order; after the call returned, no output file of a cell
\* of cellparams exists.
C2_ParseThenDelete ==
    /\ \A c \in Cells :
          \/ IsPrefix(Ops(c), <<"found", "parse", "remove">>)
          \/ IsPrefix(Ops(c), <<"absent", "sim", "parse", "remove">>)
    /\ run.pc = "returned" => \A c \in Cells : ~fs[cellparams[c]].exists

\* A returned call of two or more cells, one simulated and one whose file
\* was there, every cell parsed and then deleted.
C2_Witness ==
    /\ run.pc = "returned"
    /\ \E a, b \in Cells :
          /\ Ops(a) = <<"absent", "sim", "parse", "remove">>
          /\ Ops(b) = <<"found", "parse", "remove">>
    /\ \A c \in Cells : ~fs[cellparams[c]].exists

\* The rows a worker finds in the output file of cell c when no other cell
\* shares its path.
OwnRows(c) ==
    IF hist.fs0[cellparams[c]].exists
    THEN hist.fs0[cellparams[c]].rows
    ELSE SimReport(c)

\* The sequential run (one worker, the cells in the order of submission)
\* from cell c on, on disk d, with the results out so far.
RECURSIVE SeqRun(_, _, _)
SeqRun(c, d, out) ==
    IF c \notin Cells
    THEN [ok |-> TRUE, output |-> out]
    ELSE LET p == cellparams[c]
             r == ReadMonthly(IF d[p].exists THEN d[p].rows ELSE SimReport(c))
         IN  IF r.pc # "done"
             THEN [ok |-> FALSE, output |-> out]
             ELSE SeqRun(c + 1, [d EXCEPT ![p] = NoFile], (c :> r.data) @@ out)

\* C10: with pairwise-distinct output paths, whatever the number of workers
\* and the order of completion, the call does not raise and returns, for
\* exactly the cells of cellparams, the parse of the cell's own output file:
\* the mapping of the sequential run; no worker touches a path other than
\* the one of its cell, which is no other cell's.
C10_SameAsSequential ==
    DistinctPaths =>
      /\ run.pc # "raised"
      /\ \A c \in Cells : \A j \in DOMAIN hist.log[c] :
            /\ hist.log[c][j][2] = cellparams[c]
            /\ \A b \in Cells \ {c} : cellparams[b] # hist.log[c][j][2]
      /\ run.pc = "returned" =>
            /\ DOMAIN run.output = Cells
            /\ \A c \in Cells : run.output[c] = ReadMonthly(OwnRows(c)).data
            /\ SeqRun(1, hist.fs0, <<>>).ok
            /\ run.output = SeqRun(1, hist.fs0, <<>>).output

\* A returned call with distinct paths and two workers, whose results came
\* in another order than the order of submission.
C10_Witness ==
    /\ run.pc = "returned"
    /\ DistinctPaths
    /\ ncore >= 2
    /\ \E j \in DOMAIN hist.order : hist.order[j] # j

\* ----------------------------------------------------- claims (weather)

JSources == {jin.wy2, jin.wy3}
JAccepted ==
    jin.wy2.fmt = "WY2" /\ jin.wy3.fmt = "WY3" /\ jin.wy2.tfmt = jin.wy3.tfmt

\* The position of time coordinate t on the merged time axis.
JPos(t) == CHOOSE q \in DOMAIN jst.wy23_df.Time : jst.wy23_df.Time[q] = t

JStrictlyIncreasing ==
    \A q \in DOMAIN jst.wy23_df.Time :
        q > 1 => jst.wy23_df.Time[q - 1] < jst.wy23_df.Time[q]

\* The values of row j of dataset d are at the position of its time
\* coordinate in the merged arrays.
JRowKept(d, j) ==
    /\ \E q \in DOMAIN jst.wy23_df.Time : jst.wy23_df.Time[q] = d.Time[j]
    /\ \A key \in JKeys : jst.wy23_df.cols[key][JPos(d.Time[j])] = d.cols[key][j]

\* A row assigned after row j of dataset d has the time coordinate of that
\* row: a later row of d, or a row of the WY3 dataset when d is the WY2 one.
JShadowed(d, j) ==
    \/ \E k \in DOMAIN d.Time : k > j /\ d.Time[k] = d.Time[j]
    \/ d = jin.wy2 /\ \E k \in DOMAIN jin.wy3.Time : jin.wy3.Time[k] = d.Time[j]

\* C5 as stated: the merged time axis is strictly increasing, every source
\* row has its values at the position of its time coordinate, and the
\* merged length is the total number of source rows.
C5_AsStated ==
    JAccepted =>
      /\ jst.pc # "raised"
      /\ jst.pc = "done" =>
            /\ JStrictlyIncreasing
            /\ \A j \in DOMAIN jin.wy2.Time : JRowKept(jin.wy2, j)
            /\ \A j \in DOMAIN jin.wy3.Time : JRowKept(jin.wy3, j)
            /\ Len(jst.wy23_df.Time) = Len(jin.wy2.Time) + Len(jin.wy3.Time)

\* C5 as amended: the merged time axis is strictly increasing and holds each
\* time coordinate of the sources once; a source row has its values at the
\* position of its time coordinate unless a row assigned after it has the
\* same time coordinate.
C5_MergedAxis ==
    JAccepted =>
      /\ jst.pc # "raised"
      /\ jst.pc = "done" =>
            /\ JStrictlyIncreasing
            /\ Values(jst.wy23_df.Time) = Values(jin.wy2.Time) \cup Values(jin.wy3.Time)
            /\ Len(jst.wy23_df.Time) =
                   Cardinality(Values(jin.wy2.Time) \cup Values(jin.wy3.Time))
            /\ \A j \in DOMAIN jin.wy2.Time :
                   ~JShadowed(jin.wy2, j) => JRowKept(jin.wy2, j)
            /\ \A j \in DOMAIN jin.wy3.Time :
                   ~JShadowed(jin.wy3, j) => JRowKept(jin.wy3, j)
            /\ \A key \in JKeys : \A q \in DOMAIN jst.wy23_df.Time :
                   jst.wy23_df.cols[key][q] # Garbage

\* A merge of two datasets that share a time coordinate and have another
\* one each has returned.
C5_Witness ==
    /\ jst.pc = "done"
    /\ Values(jin.wy2.Time) \cap Values(jin.wy3.Time) # {}
    /\ Values(jin.wy2.Time) \ Values(jin.wy3.Time) # {}
    /\ Values(jin.wy3.Time) \ Values(jin.wy2.Time) # {}

\* The arguments of save_data_to_HELP_format fail a validation.
SInvalid ==
    \/ sin.ext \notin {"D4", "D7", "D13"}
    \/ sin.ext = "D13" /\ sin.lat = NoLat
    \/ \E y \in SYears : sin.count[y] > 0 /\ sin.count[y] # DaysIn(y)

\* C6: when a validation fails the call raises and the file system is left
\* as it was; the target file is written only when every validation passes.
C6_NoWriteOnFailure ==
    /\ SInvalid => sfs = sin.fs0 /\ sst.pc \notin {"write", "done"}
    /\ SInvalid /\ sst.pc = "data" => sst.todo # <<>>
    /\ sst.pc = "raised" => SInvalid /\ sfs = sin.fs0
    /\ sst.pc = "done" => ~SInvalid /\ sfs = File(sst.fcontent)

\* The call raised on the second year of the array, after the header and
\* the lines of the first year were formatted, and the file that was there
\* is as it was.
C6_Witness ==
    /\ sst.pc = "raised"
    /\ sst.err = "AssertionError"
    /\ Len(sst.fcontent) = 4 + 37
    /\ sin.fs0.exists
    /\ sfs = sin.fs0

NLengthsDiffer ==
    ~(Len(nin.years) = Len(nin.months) /\ Len(nin.months) = Len(nin.x_mly))

\* C8: when the lengths of years, months and x_mly are not all equal, the
\* call raises ValueError at the check of the lengths, before any normal is
\* computed.
C8_LengthsChecked ==
    NLengthsDiffer =>
      /\ nst.pc \in {"lengths", "raised"}
      /\ nst.pc = "raised" => nst.err = "ValueError"

\* ------------------------------------------------- claims (monthly blocks)
\* The report without its blank lines; every row keeps its identifier.
Strip(f) == SelectSeq(f, LAMBDA row : row.n > 0)

\* The row with its numbers forgotten: only whether it holds numbers is kept.
Skeleton(f) ==
    [j \in DOMAIN f |-> [f[j] EXCEPT !.vals = IF @ > 0 THEN 1 ELSE 0]]

\* The blocks of a well-formed report: the marker, the pairs of the
\* variables (with or without 'LATERAL DRAINAGE'), the separator.
WellShapes ==
    { <<"P", "R", "E", "L", "K", "s">>,
      <<"P", "R", "E", "L", "K", "L", "K", "s">>,
      <<"P", "R", "E", "K", "s">>,
      <<"P", "R", "E", "K", "K", "s">> }

\* The well-formed reports without blank lines: one block or more, then
\* nothing or the 'FINAL WATER STORAGE' section.
WellFormedReports ==
    { Concat([k \in DOMAIN ss |-> MBlock(ss[k], k)]) \o t :
        ss \in SeqsUpTo(WellShapes, MaxBlocks) \ {<<>>},
        t \in { <<>>, <<MFinal, MCont>> } }

\* The parsed report is a well-formed report with blank lines inserted.
MBlanksInserted ==
    /\ \E j \in DOMAIN mfile : mfile[j].n = 0
    /\ Skeleton(Strip(mfile)) \in WellFormedReports

\* C11: a well-formed monthly report with blank lines inserted at any
\* positions is parsed to the same result table as the report without those
\* blank lines.
C11_BlankLinesIgnored ==
    (mst.pc \in {"done", "raised"} /\ MBlanksInserted) =>
        LET ref == ReadMonthly(Strip(mfile)) IN
        /\ ref.pc = "done"
        /\ mst.pc = "done"
        /\ mst.data = ref.data

\* The variables whose rows the claim is about.
OwnBlockKeys == {"rain", "runoff", "evapo", "percolation", "recharge"}

\* C12: in a returned monthly table, row i of rain, runoff, evapo,
\* percolation and recharge is built from two lines that lie between the
\* i-th 'MONTHLY TOTALS' marker and its separator line.
C12_RowsFromOwnBlock ==
    mst.pc = "done" =>
        \A i \in DOMAIN mst.spans : \A key \in OwnBlockKeys :
            LET r == mst.data[key][i]
                s == mst.spans[i][1]
                e == mst.spans[i][2]
            IN  /\ r.w = 12
                /\ s < r.a - 1 /\ r.a - 1 < e
                /\ s < r.b - 1 /\ r.b - 1 < e

====
